---- MODULE Spec2Model ----
(***************************************************************************)
(* The linuxkms calloop backend: the cross-thread event-loop Proxy          *)
(* (quit_event_loop, invoke_from_event_loop), the job channel, and          *)
(* Backend::run_event_loop with its dispatch loop.                          *)
(*                                                                         *)
(* The loop thread is one process whose position is pc; the other threads  *)
(* act through the two Proxy operations.  Jobs are numbered 1, 2, ... in   *)
(* the order in which the channel accepted them.                           *)
(***************************************************************************)
EXTENDS Integers, Sequences, FiniteSets, TLC

(* ------------------------------- bounds -------------------------------- *)
MaxJobs == 3      \* jobs the other threads try to send
MaxRuns == 2      \* calls of run_event_loop by the owner of the Backend
MaxNested == 1    \* calls of run_event_loop made from inside a job

(* ------------------------- program constants --------------------------- *)
FrameMs == 16     \* Duration::from_millis(16)

NoTimeout == -1                 \* Option<Duration>::None
TimerDurations == {5, 100}      \* values of duration_until_next_timer_update
Timeouts == {NoTimeout} \cup TimerDurations

(* Renderer names a caller may pass; "None" is the absent name and "bogus"
   a name no arm of the match knows. *)
RendererNames == {"None", "skia-vulkan", "skia-opengl", "femtovg", "bogus"}
Features == {"renderer-skia-vulkan", "renderer-skia-opengl",
             "renderer-femtovg"}
DefaultFactory == "try_skia_then_femtovg"

(* Descriptor flags: the access mode and O_NONBLOCK. *)
HandoffFlags == {{"O_RDWR"}, {"O_RDWR", "O_NONBLOCK"}}

SeatEvents == {"Enable", "Disable"}
(* What one seat.dispatch call can deliver to the callback. *)
SeatBatches ==
    {<<>>} \cup {<<e>> : e \in SeatEvents}
           \cup {<<e, f>> : e \in SeatEvents, f \in SeatEvents}

NoAdapterCall == [fails |-> "none", res |-> "none", handoff |-> {}, fd |-> {}]

VARIABLES
    pc,                   \* position of the loop thread
    runs,                 \* calls of run_event_loop made so far
    nested,               \* calls of run_event_loop made from a job so far
    result,               \* what the last returned run_event_loop returned
    window,               \* Backend.window holds an adapter
    user_event_receiver,  \* where the channel's receiving end is
    took_at,              \* the first call that took the receiver (0: none)
    user_event_channel,   \* messages in the channel
    chan_ping,            \* the channel source's ping is pending
    loop_signal,          \* Proxy.loop_signal: 0 is None, else a reactor id
    quit_loop,            \* Proxy.quit_loop
    event_loop,           \* id of run_event_loop's live reactor (0: none)
    next_id,              \* reactors created so far
    wake,                 \* a wakeup of the live reactor is pending
    input_ready,          \* an input source of the live reactor is readable
    has_active_animations,
    duration_until_next_timer_update,
    next_timeout,         \* run_event_loop's local next_timeout
    current,              \* the job being executed (0: none)
    executed,             \* jobs executed to completion, in order
    sent,                 \* jobs the channel accepted
    pre_start,            \* jobs accepted before the first run_event_loop
    started,              \* the dispatch loop has begun an iteration
    dispatched,           \* a dispatch step of the loop has returned Ok
    qpc,                  \* position of the thread inside quit_event_loop
    last_call,            \* the last Proxy call: operation, phase, result
    features,             \* the renderer features the crate is built with
    ctor_pc,              \* position inside new_with_renderer_by_name
    ctor_result,          \* what new_with_renderer_by_name returned
    renderer_name,        \* its argument
    renderer_factory,     \* Backend.renderer_factory
    warned,               \* the "unrecognized renderer" warning was printed
    seat_active,          \* the seat_active flag the seat callback sets
    seat_disabled,        \* the seat callback was called with Disable
    device_fd,            \* flags of the descriptor the cached adapter's
                          \* renderer owns (empty: no adapter)
    adapter_call          \* the last create_window_adapter call, as long as
                          \* its caller holds the result

vars == <<pc, runs, nested, result, window, user_event_receiver, took_at,
          user_event_channel, chan_ping, loop_signal, quit_loop, event_loop,
          next_id, wake, input_ready, has_active_animations,
          duration_until_next_timer_update, next_timeout, current, executed,
          sent, pre_start, started, dispatched, qpc, last_call, features,
          ctor_pc, ctor_result, renderer_name, renderer_factory, warned,
          seat_active, seat_disabled, device_fd, adapter_call>>

proxy_vars == <<loop_signal, quit_loop, qpc, last_call>>
chan_vars == <<user_event_receiver, took_at, user_event_channel, chan_ping,
               sent, pre_start>>
job_vars == <<current, executed>>
adapter_vars == <<has_active_animations, duration_until_next_timer_update>>
call_vars == <<runs, nested, result, window>>
hist_vars == <<started, dispatched>>
reactor_vars == <<event_loop, next_id, wake, input_ready>>
ctor_vars == <<features, ctor_pc, ctor_result, renderer_name,
               renderer_factory, warned, seat_active, seat_disabled>>
device_vars == <<device_fd, adapter_call>>

LoopBody == {"update_timers", "render", "compute_timeout", "dispatch",
             "drain", "in_job"}

(* Where the loop is, as a Proxy caller can tell. *)
LoopPhase ==
    IF runs = 0 THEN "before"
    ELSE IF pc # "idle" THEN "during"
    ELSE IF user_event_receiver = "dropped" THEN "after"
    ELSE "between"

(* The fields of a new Backend and its Proxy, and the loop thread outside
   every call. *)
FieldsInit ==
    /\ pc = "idle"
    /\ runs = 0
    /\ nested = 0
    /\ result = "none"
    /\ window = FALSE
    /\ user_event_receiver = "backend"
    /\ took_at = 0
    /\ user_event_channel = <<>>
    /\ chan_ping = FALSE
    /\ loop_signal = 0
    /\ quit_loop = FALSE
    /\ event_loop = 0
    /\ next_id = 0
    /\ wake = FALSE
    /\ input_ready = FALSE
    /\ has_active_animations = FALSE
    /\ duration_until_next_timer_update = NoTimeout
    /\ next_timeout = NoTimeout
    /\ current = 0
    /\ executed = <<>>
    /\ sent = 0
    /\ pre_start = 0
    /\ started = FALSE
    /\ dispatched = FALSE
    /\ qpc = "idle"
    /\ last_call = [op |-> "none", phase |-> "before", res |-> "none"]
    /\ seat_disabled = FALSE
    /\ device_fd = {}
    /\ adapter_call = NoAdapterCall

(* The state after Backend::new() has returned Ok(backend), in a build with
   every renderer feature. *)
Init ==
    /\ FieldsInit
    /\ features = Features
    /\ ctor_pc = "constructed"
    /\ ctor_result = "Ok"
    /\ renderer_name = "None"
    /\ renderer_factory = DefaultFactory
    /\ warned = FALSE
    /\ seat_active = TRUE

(* ------------------------ Backend construction ------------------------- *)

(* The state in which new_with_renderer_by_name is entered, in any build. *)
CtorInit ==
    /\ FieldsInit
    /\ features \in SUBSET Features
    /\ ctor_pc = "new"
    /\ ctor_result = "none"
    /\ renderer_name = "None"
    /\ renderer_factory = "unset"
    /\ warned = FALSE
    /\ seat_active = FALSE

(* The match arms that exist in a build with the features f. *)
Recognized(name, f) ==
    \/ name = "skia-vulkan" /\ "renderer-skia-vulkan" \in f
    \/ name = "skia-opengl" /\ "renderer-skia-opengl" \in f
    \/ name = "femtovg" /\ "renderer-femtovg" \in f

(* A selection that refuses the names it does not know. *)
RendererFactoryStrict(name, f) ==
    IF name = "None" THEN DefaultFactory
    ELSE IF Recognized(name, f) THEN name
    ELSE "unset"

(* let renderer_factory = match renderer_name { .. } *)
RendererFactory(name, f) ==
    IF name = "skia-vulkan" /\ "renderer-skia-vulkan" \in f
        THEN "skia-vulkan"
    ELSE IF name = "skia-opengl" /\ "renderer-skia-opengl" \in f
        THEN "skia-opengl"
    ELSE IF name = "femtovg" /\ "renderer-femtovg" \in f
        THEN "femtovg"
    ELSE IF name = "None" THEN DefaultFactory
    ELSE DefaultFactory

(* The last arm, Some(renderer_name), prints the warning. *)
Warns(name, f) == name # "None" /\ ~Recognized(name, f)

(* new_with_renderer_by_name up to the opening of the seat: the channel is
   created and the renderer factory selected. *)
new_with_renderer_by_name(name) ==
    /\ ctor_pc = "new"
    /\ renderer_name' = name
    /\ renderer_factory' = RendererFactory(name, features)
    /\ warned' = Warns(name, features)
    /\ ctor_pc' = "seat_open"
    /\ UNCHANGED <<pc, call_vars, chan_vars, job_vars, adapter_vars,
                   reactor_vars, proxy_vars, next_timeout, hist_vars,
                   features, ctor_result, seat_active, seat_disabled,
                   device_vars>>

(* Backend::new() *)
Backend_new == new_with_renderer_by_name("None")

(* libseat::Seat::open(..) fails: map_err(..)? *)
seat_open_err ==
    /\ ctor_pc = "seat_open"
    /\ ctor_pc' = "failed"
    /\ ctor_result' = "ErrOpenSeat"
    /\ UNCHANGED <<pc, call_vars, chan_vars, job_vars, adapter_vars,
                   reactor_vars, proxy_vars, next_timeout, hist_vars,
                   features, renderer_name, renderer_factory, warned,
                   seat_active, seat_disabled, device_vars>>

(* The seat callback, applied to the events of one dispatch in order:
   Disable is unimplemented!(), a panic; Enable sets seat_active. *)
DisableDelivered(evs) == \E i \in 1..Len(evs) : evs[i] = "Disable"

SeatIgnoresDisable(evs) == FALSE

SeatPanics(evs) == DisableDelivered(evs)

SeatActive(active, evs) ==
    \/ active
    \/ \E i \in 1..Len(evs) :
          /\ evs[i] = "Enable"
          /\ \A j \in 1..i : evs[j] # "Disable"

(* A handshake that ends at the first dispatch that handled anything. *)
ActivationDoneOnAnyEvent(active, n) == active \/ n > 0

(* The while condition on seat_active, negated; n is what seat.dispatch
   returned in the loop body. *)
ActivationDone(active, n) == active

(* libseat::Seat::open(..) succeeds, having called the callback with the
   events evs (none, when the first events come with a dispatch); then the
   while condition is tested for the first time. *)
seat_open(evs) ==
    /\ ctor_pc = "seat_open"
    /\ seat_active' = SeatActive(seat_active, evs)
    /\ seat_disabled' = (seat_disabled \/ DisableDelivered(evs))
    /\ ctor_pc' = IF SeatPanics(evs) THEN "panicked"
                  ELSE IF ActivationDone(SeatActive(seat_active, evs), 0)
                       THEN "constructed"
                  ELSE "activating"
    /\ ctor_result' = IF ~SeatPanics(evs)
                          /\ ActivationDone(SeatActive(seat_active, evs), 0)
                      THEN "Ok" ELSE ctor_result
    /\ UNCHANGED <<pc, call_vars, chan_vars, job_vars, adapter_vars,
                   reactor_vars, proxy_vars, next_timeout, hist_vars,
                   features, renderer_name, renderer_factory, warned,
                   device_vars>>

(* seat.dispatch(5000) fails: map_err(..)? *)
seat_dispatch_err ==
    /\ ctor_pc = "activating"
    /\ ctor_pc' = "failed"
    /\ ctor_result' = "ErrSeatDispatch"
    /\ UNCHANGED <<pc, call_vars, chan_vars, job_vars, adapter_vars,
                   reactor_vars, proxy_vars, next_timeout, hist_vars,
                   features, renderer_name, renderer_factory, warned,
                   seat_active, seat_disabled, device_vars>>

(* seat.dispatch(5000) returns 0: nothing arrived within the timeout. *)
seat_dispatch_timeout ==
    /\ ctor_pc = "activating"
    /\ ctor_pc' = "failed"
    /\ ctor_result' = "ErrTimeout"
    /\ UNCHANGED <<pc, call_vars, chan_vars, job_vars, adapter_vars,
                   reactor_vars, proxy_vars, next_timeout, hist_vars,
                   features, renderer_name, renderer_factory, warned,
                   seat_active, seat_disabled, device_vars>>

(* seat.dispatch(5000) returns n > 0 after calling the callback with the
   events evs (n counts messages, so evs may be empty); then the while
   condition is tested again, and Ok(Backend { .. }) follows once it is
   false. *)
seat_dispatch(evs, n) ==
    /\ ctor_pc = "activating"
    /\ n > 0
    /\ seat_active' = SeatActive(seat_active, evs)
    /\ seat_disabled' = (seat_disabled \/ DisableDelivered(evs))
    /\ ctor_pc' = IF SeatPanics(evs) THEN "panicked"
                  ELSE IF ActivationDone(SeatActive(seat_active, evs), n)
                       THEN "constructed"
                  ELSE "activating"
    /\ ctor_result' = IF ~SeatPanics(evs)
                          /\ ActivationDone(SeatActive(seat_active, evs), n)
                      THEN "Ok" ELSE ctor_result
    /\ UNCHANGED <<pc, call_vars, chan_vars, job_vars, adapter_vars,
                   reactor_vars, proxy_vars, next_timeout, hist_vars,
                   features, renderer_name, renderer_factory, warned,
                   device_vars>>

(* ------------------------------ the Proxy ------------------------------ *)

(* A quit_event_loop that stores the flag before it looks for the
   signal. *)
quit_event_loop_err_stores ==
    /\ ctor_pc = "constructed"
    /\ pc # "panicked"
    /\ qpc = "idle"
    /\ loop_signal = 0
    /\ quit_loop' = TRUE
    /\ last_call' = [op |-> "quit", phase |-> LoopPhase,
                     res |-> "EventLoopTerminated"]
    /\ UNCHANGED <<pc, chan_vars, job_vars, adapter_vars, call_vars,
                   reactor_vars, loop_signal, qpc, next_timeout, hist_vars,
                   ctor_vars, device_vars>>

(* quit_event_loop with no signal registered: map_or_else takes the error
   branch. *)
quit_event_loop_err ==
    /\ ctor_pc = "constructed"
    /\ pc # "panicked"
    /\ qpc = "idle"
    /\ loop_signal = 0
    /\ last_call' = [op |-> "quit", phase |-> LoopPhase,
                     res |-> "EventLoopTerminated"]
    /\ UNCHANGED <<pc, chan_vars, job_vars, adapter_vars, call_vars,
                   reactor_vars, loop_signal, quit_loop, qpc, next_timeout,
                   hist_vars,
                   ctor_vars, device_vars>>

(* quit_event_loop with a signal registered: the lock is taken and the flag
   is stored. *)
quit_event_loop_store ==
    /\ ctor_pc = "constructed"
    /\ pc # "panicked"
    /\ qpc = "idle"
    /\ loop_signal # 0
    /\ quit_loop' = TRUE
    /\ qpc' = "stored"
    /\ last_call' = [op |-> "quit", phase |-> LoopPhase, res |-> "Ok"]
    /\ UNCHANGED <<pc, chan_vars, job_vars, adapter_vars, call_vars,
                   reactor_vars, loop_signal, next_timeout,
                   hist_vars,
                   ctor_vars, device_vars>>

(* The reactor a wakeup of signal s reaches: only a live one can be woken. *)
Wakeup(s, w) == IF s # 0 /\ s = event_loop THEN TRUE ELSE w

(* quit_event_loop, second half: signal.wakeup(), Ok(()), lock released. *)
quit_event_loop_wakeup ==
    /\ pc # "panicked"
    /\ qpc = "stored"
    /\ wake' = Wakeup(loop_signal, wake)
    /\ qpc' = "idle"
    /\ UNCHANGED <<pc, chan_vars, job_vars, adapter_vars, call_vars,
                   event_loop, next_id, input_ready, loop_signal, quit_loop,
                   last_call, next_timeout,
                   hist_vars,
                   ctor_vars, device_vars>>

(* A send that is refused until a loop has registered its signal. *)
SendOkOnceSignalled == user_event_receiver # "dropped" /\ loop_signal # 0

(* Sender::send: fails exactly when the receiving end has been dropped. *)
SendOk == user_event_receiver # "dropped"

invoke_from_event_loop ==
    /\ ctor_pc = "constructed"
    /\ pc # "panicked"
    /\ sent < MaxJobs
    /\ IF SendOk
       THEN /\ sent' = sent + 1
            /\ user_event_channel' = Append(user_event_channel, sent + 1)
            /\ chan_ping' = TRUE
            /\ pre_start' = IF runs = 0 THEN pre_start + 1 ELSE pre_start
            /\ last_call' = [op |-> "invoke", phase |-> LoopPhase,
                             res |-> "Ok"]
       ELSE /\ last_call' = [op |-> "invoke", phase |-> LoopPhase,
                             res |-> "EventLoopTerminated"]
            /\ UNCHANGED <<sent, user_event_channel, chan_ping, pre_start>>
    /\ UNCHANGED <<pc, user_event_receiver, took_at, job_vars, adapter_vars,
                   call_vars, reactor_vars, loop_signal, quit_loop, qpc,
                   next_timeout,
                   hist_vars,
                   ctor_vars, device_vars>>

(* --------------------------- the Backend ------------------------------- *)

(* Which of the opener's three calls failed first, if any. *)
FirstFailure(open_ok, getfl_ok, setfl_ok) ==
    IF ~open_ok THEN "open_device"
    ELSE IF ~getfl_ok THEN "F_GETFL"
    ELSE IF ~setfl_ok THEN "F_SETFL"
    ELSE "none"

(* A flag update that sets the bit it should clear. *)
InsertNonblock(flags) == flags \cup {"O_NONBLOCK"}

(* flags.remove(OFlag::O_NONBLOCK) *)
RemoveNonblock(flags) == flags \ {"O_NONBLOCK"}

(* A device opener that does not look at the result of F_SETFL. *)
OpenerIgnoresSetfl(open_ok, getfl_ok, setfl_ok) ==
    IF ~open_ok THEN "ErrOpenDevice"
    ELSE IF ~getfl_ok THEN "ErrGetFlags"
    ELSE "Ok"

(* The device opener closure: open_device(..)?, fcntl(F_GETFL)?,
   fcntl(F_SETFL)?, Ok(fd). *)
OpenerResult(open_ok, getfl_ok, setfl_ok) ==
    IF ~open_ok THEN "ErrOpenDevice"
    ELSE IF ~getfl_ok THEN "ErrGetFlags"
    ELSE IF ~setfl_ok THEN "ErrSetFlags"
    ELSE "Ok"

(* The flags of the descriptor the opener hands to the renderer: those of
   the hand-off, updated by F_SETFL when that call succeeded. *)
OpenerFd(handoff, setfl_ok, opener_res) ==
    IF opener_res # "Ok" THEN {}
    ELSE {IF setfl_ok THEN RemoveNonblock(handoff) ELSE handoff}

(* The renderer factory calls the opener once and gives up when it fails;
   with a descriptor it may still fail to set up the renderer. *)
FactoryResult(opener_res, renderer_ok) ==
    IF opener_res # "Ok" THEN opener_res
    ELSE IF renderer_ok THEN "Ok" ELSE "ErrRenderer"

(* (self.renderer_factory)(..)?; FullscreenWindowAdapter::new(renderer)? *)
CreateWindowAdapterResult(factory_res, adapter_ok) ==
    IF factory_res # "Ok" THEN factory_res
    ELSE IF adapter_ok THEN "Ok" ELSE "ErrAdapter"

(* create_window_adapter: the adapter is cached in self.window only when
   every step succeeded. *)
create_window_adapter(open_ok, handoff, getfl_ok, setfl_ok, rend_ok, ok) ==
    LET o == OpenerResult(open_ok, getfl_ok, setfl_ok)
        fd == OpenerFd(handoff, setfl_ok, o)
        r == CreateWindowAdapterResult(FactoryResult(o, rend_ok), ok)
    IN  /\ pc = "idle"
        /\ ctor_pc = "constructed"
        /\ window' = (window \/ r = "Ok")
        /\ device_fd' = IF r = "Ok" THEN fd ELSE device_fd
        /\ adapter_call' = [fails |-> FirstFailure(open_ok, getfl_ok,
                                                   setfl_ok),
                            res |-> r,
                            handoff |-> IF open_ok THEN {handoff} ELSE {},
                            fd |-> fd]
        /\ UNCHANGED <<pc, runs, nested, result, chan_vars, job_vars,
                       adapter_vars, reactor_vars, proxy_vars, next_timeout,
                       hist_vars, ctor_vars>>

(* A receiver that is put back into the Backend when the call returns. *)
DroppedReceiverPutBack(r) == IF r = "loop" THEN "backend" ELSE r

(* Dropping run_event_loop's locals: the reactor with its sources, and with
   them the channel's receiving end once it has been taken. *)
DroppedReceiver(r) == IF r = "loop" THEN "dropped" ELSE r

(* A return that reports success whatever ended the call. *)
ReturnSwallowsError(res) ==
    /\ pc' = "idle"
    /\ result' = "Ok"
    /\ event_loop' = 0
    /\ wake' = FALSE
    /\ input_ready' = FALSE
    /\ next_timeout' = NoTimeout
    /\ user_event_receiver' = DroppedReceiver(user_event_receiver)
    /\ user_event_channel' =
          IF DroppedReceiver(user_event_receiver) = "dropped"
          THEN <<>> ELSE user_event_channel
    /\ chan_ping' =
          IF DroppedReceiver(user_event_receiver) = "dropped"
          THEN FALSE ELSE chan_ping

(* A return of run_event_loop after its reactor was created: the value is
   handed to the caller and the locals are dropped. *)
Return(res) ==
    /\ pc' = "idle"
    /\ result' = res
    /\ event_loop' = 0
    /\ wake' = FALSE
    /\ input_ready' = FALSE
    /\ next_timeout' = NoTimeout
    /\ user_event_receiver' = DroppedReceiver(user_event_receiver)
    /\ user_event_channel' =
          IF DroppedReceiver(user_event_receiver) = "dropped"
          THEN <<>> ELSE user_event_channel
    /\ chan_ping' =
          IF DroppedReceiver(user_event_receiver) = "dropped"
          THEN FALSE ELSE chan_ping

(* self.window.borrow().as_ref().unwrap() with no adapter cached. *)
run_event_loop_unwrap_none ==
    /\ pc = "idle"
    /\ ctor_pc = "constructed"
    /\ runs < MaxRuns
    /\ ~window
    /\ pc' = "panicked"
    /\ runs' = runs + 1
    /\ UNCHANGED <<nested, result, window, chan_vars, job_vars, adapter_vars,
                   reactor_vars, proxy_vars, next_timeout,
                   hist_vars,
                   ctor_vars, device_fd>>
    /\ adapter_call' = NoAdapterCall

(* EventLoop::try_new() fails. *)
run_event_loop_try_new_err ==
    /\ pc = "idle"
    /\ ctor_pc = "constructed"
    /\ runs < MaxRuns
    /\ window
    /\ runs' = runs + 1
    /\ result' = "ErrCreate"
    /\ UNCHANGED <<pc, nested, window, chan_vars, job_vars, adapter_vars,
                   reactor_vars, proxy_vars, next_timeout,
                   hist_vars,
                   ctor_vars, device_fd>>
    /\ adapter_call' = NoAdapterCall

(* EventLoop::try_new() succeeds; get_signal(). *)
run_event_loop_try_new ==
    /\ pc = "idle"
    /\ ctor_pc = "constructed"
    /\ runs < MaxRuns
    /\ window
    /\ runs' = runs + 1
    /\ next_id' = next_id + 1
    /\ event_loop' = next_id + 1
    /\ pc' = "set_signal"
    /\ UNCHANGED <<nested, result, window, chan_vars, job_vars, adapter_vars,
                   wake, input_ready, proxy_vars, next_timeout,
                   hist_vars,
                   ctor_vars, device_fd>>
    /\ adapter_call' = NoAdapterCall

(* *self.proxy.loop_signal.lock().unwrap() = Some(loop_signal.clone()) *)
run_event_loop_set_signal ==
    /\ pc = "set_signal"
    /\ qpc = "idle"
    /\ loop_signal' = event_loop
    /\ pc' = "input_init"
    /\ UNCHANGED <<call_vars, chan_vars, job_vars, adapter_vars, reactor_vars,
                   quit_loop, qpc, last_call, next_timeout,
                   hist_vars,
                   ctor_vars, device_vars>>

(* input::LibInputHandler::init(..)? *)
run_event_loop_input_init ==
    /\ pc = "input_init"
    /\ pc' = "take_receiver"
    /\ UNCHANGED <<call_vars, chan_vars, job_vars, adapter_vars, reactor_vars,
                   proxy_vars, next_timeout,
                   hist_vars,
                   ctor_vars, device_vars>>

run_event_loop_input_init_err ==
    /\ pc = "input_init"
    /\ Return("ErrInput")
    /\ UNCHANGED <<runs, nested, window, took_at, sent, pre_start, job_vars,
                   adapter_vars, next_id, proxy_vars,
                   hist_vars,
                   ctor_vars, device_vars>>

(* A receiver that is borrowed instead of taken is found again by every
   call. *)
ReceiverPresentAlways(r) == TRUE

(* self.user_event_receiver.borrow_mut().take() *)
ReceiverPresent(r) == r = "backend"

run_event_loop_take_receiver ==
    /\ pc = "take_receiver"
    /\ ReceiverPresent(user_event_receiver)
    /\ user_event_receiver' = "loop"
    /\ took_at' = IF took_at = 0 THEN runs ELSE took_at
    /\ pc' = "insert_source"
    /\ UNCHANGED <<call_vars, user_event_channel, chan_ping, sent, pre_start,
                   job_vars, adapter_vars, reactor_vars, proxy_vars,
                   next_timeout,
                   hist_vars,
                   ctor_vars, device_vars>>

run_event_loop_reentry_err ==
    /\ pc = "take_receiver"
    /\ ~ReceiverPresent(user_event_receiver)
    /\ Return("ErrReentry")
    /\ UNCHANGED <<runs, nested, window, took_at, sent, pre_start, job_vars,
                   adapter_vars, next_id, proxy_vars,
                   hist_vars,
                   ctor_vars, device_vars>>

(* event_loop.handle().insert_source(user_event_receiver, ..)? *)
run_event_loop_insert_source ==
    /\ pc = "insert_source"
    /\ pc' = "reset_quit"
    /\ UNCHANGED <<call_vars, chan_vars, job_vars, adapter_vars, reactor_vars,
                   proxy_vars, next_timeout,
                   hist_vars,
                   ctor_vars, device_vars>>

run_event_loop_insert_source_err ==
    /\ pc = "insert_source"
    /\ Return("ErrInsert")
    /\ UNCHANGED <<runs, nested, window, took_at, sent, pre_start, job_vars,
                   adapter_vars, next_id, proxy_vars,
                   hist_vars,
                   ctor_vars, device_vars>>

(* quit_loop.store(false, Release) *)
run_event_loop_reset_quit ==
    /\ pc = "reset_quit"
    /\ quit_loop' = FALSE
    /\ pc' = "check_quit"
    /\ UNCHANGED <<call_vars, chan_vars, job_vars, adapter_vars, reactor_vars,
                   loop_signal, qpc, last_call, next_timeout,
                   hist_vars,
                   ctor_vars, device_vars>>

(* while !quit_loop.load(Acquire) *)
LoopContinues(flag) == ~flag

run_event_loop_iterate ==
    /\ pc = "check_quit"
    /\ LoopContinues(quit_loop)
    /\ pc' = "update_timers"
    /\ UNCHANGED <<call_vars, chan_vars, job_vars, adapter_vars, reactor_vars,
                   proxy_vars, next_timeout,
                   dispatched,
                   ctor_vars, device_vars>>
    /\ started' = TRUE

run_event_loop_exit ==
    /\ pc = "check_quit"
    /\ ~LoopContinues(quit_loop)
    /\ Return("Ok")
    /\ UNCHANGED <<runs, nested, window, took_at, sent, pre_start, job_vars,
                   adapter_vars, next_id, proxy_vars,
                   hist_vars,
                   ctor_vars, device_vars>>

(* i_slint_core::platform::update_timers_and_animations(): time has passed,
   timers fire and animations start or end. *)
update_timers_and_animations ==
    /\ pc = "update_timers"
    /\ has_active_animations' \in BOOLEAN
    /\ duration_until_next_timer_update' \in Timeouts
    /\ pc' = "render"
    /\ UNCHANGED <<call_vars, chan_vars, job_vars, reactor_vars, proxy_vars,
                   next_timeout,
                   hist_vars,
                   ctor_vars, device_vars>>

(* adapter.render_if_needed(..)? *)
render_if_needed ==
    /\ pc = "render"
    /\ pc' = "compute_timeout"
    /\ UNCHANGED <<call_vars, chan_vars, job_vars, adapter_vars, reactor_vars,
                   proxy_vars, next_timeout,
                   hist_vars,
                   ctor_vars, device_vars>>

render_if_needed_err ==
    /\ pc = "render"
    /\ Return("ErrRender")
    /\ UNCHANGED <<runs, nested, window, took_at, sent, pre_start, job_vars,
                   adapter_vars, next_id, proxy_vars,
                   hist_vars,
                   ctor_vars, device_vars>>

(* The adapter's timer deadline given precedence over the animation frame. *)
NextTimeoutTimerFirst(animations, timer) ==
    IF timer # NoTimeout THEN timer
    ELSE IF animations THEN FrameMs ELSE NoTimeout

(* A timeout that is computed once and kept for the iterations after. *)
NextTimeoutCached(animations, timer) ==
    IF next_timeout # NoTimeout THEN next_timeout
    ELSE IF animations THEN FrameMs ELSE timer

(* let next_timeout = if has_active_animations() { Some(16 ms) }
   else { duration_until_next_timer_update() } *)
NextTimeout(animations, timer) == IF animations THEN FrameMs ELSE timer

run_event_loop_next_timeout ==
    /\ pc = "compute_timeout"
    /\ next_timeout' =
          NextTimeout(has_active_animations, duration_until_next_timer_update)
    /\ pc' = "dispatch"
    /\ UNCHANGED <<call_vars, chan_vars, job_vars, adapter_vars, reactor_vars,
                   proxy_vars,
                   hist_vars,
                   ctor_vars, device_vars>>

(* A reactor in which the channel's ping is not a source of the poll. *)
PollReadyWithoutChannel(timeout) ==
    timeout # NoTimeout \/ wake \/ input_ready

(* A dispatch that treats None as a zero timeout. *)
PollReadyAlways(timeout) == TRUE

(* event_loop.dispatch(next_timeout, ..) returns when a source is ready or
   the timeout has elapsed; with None it waits for a source. *)
PollReady(timeout) ==
    timeout # NoTimeout \/ wake \/ chan_ping \/ input_ready

(* The poll returns: the wakeup and the input events are consumed, and the
   channel source is processed when its ping is pending. *)
dispatch_poll ==
    /\ pc = "dispatch"
    /\ PollReady(next_timeout)
    /\ wake' = FALSE
    /\ input_ready' = FALSE
    /\ chan_ping' = FALSE
    /\ pc' = IF chan_ping THEN "drain" ELSE "check_quit"
    /\ UNCHANGED <<call_vars, user_event_receiver, took_at,
                   user_event_channel, sent, pre_start, job_vars,
                   adapter_vars, event_loop, next_id, proxy_vars,
                   next_timeout,
                   started,
                   ctor_vars, device_vars>>
    /\ dispatched' = (dispatched \/ ~chan_ping)

(* event_loop.dispatch(..) fails: map_err(..)? *)
dispatch_err ==
    /\ pc = "dispatch"
    /\ Return("ErrDispatch")
    /\ UNCHANGED <<runs, nested, window, took_at, sent, pre_start, job_vars,
                   adapter_vars, next_id, proxy_vars,
                   hist_vars,
                   ctor_vars, device_vars>>

(* Messages taken from the wrong end of the channel. *)
NextJobNewest(q) == q[Len(q)]
(* Messages left in the channel thrown away after the first one. *)
RestJobsNone(q) == <<>>

(* The channel source hands over the messages one by one, oldest first,
   until the channel is empty. *)
NextJob(q) == Head(q)
RestJobs(q) == Tail(q)
(* A channel source that stops handing over messages once the quit flag
   is set. *)
MoreJobsUnlessQuit(q) == q # <<>> /\ ~quit_loop

(* The source calls the callback for every message the channel holds. *)
MoreJobs(q) == q # <<>>

(* Event::Msg(callback): callback() is entered. *)
job_begin ==
    /\ pc = "drain"
    /\ MoreJobs(user_event_channel)
    /\ current' = NextJob(user_event_channel)
    /\ user_event_channel' = RestJobs(user_event_channel)
    /\ pc' = "in_job"
    /\ UNCHANGED <<call_vars, user_event_receiver, took_at, chan_ping, sent,
                   pre_start, executed, adapter_vars, reactor_vars,
                   proxy_vars, next_timeout,
                   hist_vars,
                   ctor_vars, device_vars>>

(* callback() returns; the job may have started or stopped animations and
   timers. *)
job_end ==
    /\ pc = "in_job"
    /\ executed' = Append(executed, current)
    /\ current' = 0
    /\ has_active_animations' \in BOOLEAN
    /\ duration_until_next_timer_update' \in Timeouts
    /\ pc' = "drain"
    /\ UNCHANGED <<call_vars, chan_vars, reactor_vars, proxy_vars,
                   next_timeout,
                   hist_vars,
                   ctor_vars, device_vars>>

(* The channel is empty: dispatch returns to the loop. *)
drain_done ==
    /\ pc = "drain"
    /\ ~MoreJobs(user_event_channel)
    /\ pc' = "check_quit"
    /\ UNCHANGED <<call_vars, chan_vars, job_vars, adapter_vars, reactor_vars,
                   proxy_vars, next_timeout,
                   started,
                   ctor_vars, device_vars>>
    /\ dispatched' = TRUE

(* A job calls run_event_loop while the loop runs.  The call creates a
   reactor of its own; unless that fails it registers the new reactor's
   signal in the Proxy, and then it fails in the input initialisation or
   because the receiver is taken, and drops its reactor. *)
job_run_event_loop_try_new_err ==
    /\ pc = "in_job"
    /\ nested < MaxNested
    /\ nested' = nested + 1
    /\ UNCHANGED <<pc, runs, result, window, chan_vars, job_vars,
                   adapter_vars, reactor_vars, proxy_vars, next_timeout,
                   hist_vars,
                   ctor_vars, device_vars>>

job_run_event_loop_err ==
    /\ pc = "in_job"
    /\ nested < MaxNested
    /\ qpc = "idle"
    /\ ~ReceiverPresent(user_event_receiver)
    /\ nested' = nested + 1
    /\ next_id' = next_id + 1
    /\ loop_signal' = next_id + 1
    /\ UNCHANGED <<pc, runs, result, window, chan_vars, job_vars,
                   adapter_vars, event_loop, wake, input_ready, quit_loop,
                   qpc, last_call, next_timeout,
                   hist_vars,
                   ctor_vars, device_vars>>

(* The input devices deliver an event to the live reactor. *)
input_event ==
    /\ pc \in {"take_receiver", "insert_source", "reset_quit", "check_quit"}
                \cup LoopBody
    /\ ~input_ready
    /\ input_ready' = TRUE
    /\ UNCHANGED <<pc, call_vars, chan_vars, job_vars, adapter_vars,
                   event_loop, next_id, wake, proxy_vars, next_timeout,
                   hist_vars,
                   ctor_vars, device_vars>>

(* The session is disabled while the loop runs: the reactor's session
   source is readable and the dispatch calls the seat callback with
   Disable. *)
seat_disable_in_dispatch ==
    /\ pc = "dispatch"
    /\ input_ready
    /\ seat_disabled' = TRUE
    /\ seat_active' = SeatActive(seat_active, <<"Disable">>)
    /\ pc' = IF SeatPanics(<<"Disable">>) THEN "panicked" ELSE pc
    /\ UNCHANGED <<call_vars, chan_vars, job_vars, adapter_vars,
                   reactor_vars, proxy_vars, next_timeout, hist_vars,
                   features, ctor_pc, ctor_result, renderer_name,
                   renderer_factory, warned, device_vars>>

(* The first step of create_window_adapter that fails, if any. *)
AdapterSteps == {"open_device", "F_GETFL", "F_SETFL", "renderer", "adapter",
                 "none"}

(* The calls of create_window_adapter whose first failing step is one of
   Steps and whose device is handed over with one of Flags. *)
CreateWindowAdapter(Steps, Flags) ==
    \E fails \in Steps : \E handoff \in Flags :
        create_window_adapter(fails # "open_device", handoff,
                              fails # "F_GETFL", fails # "F_SETFL",
                              fails # "renderer", fails # "adapter")

(* For the event loop only the outcome of create_window_adapter counts:
   an adapter or none. *)
LoopAdapterSteps == {"none", "open_device"}

LoopHandoffFlags == {{"O_RDWR", "O_NONBLOCK"}}

LoopThread ==
    \/ CreateWindowAdapter(LoopAdapterSteps, LoopHandoffFlags)
    \/ seat_disable_in_dispatch
    \/ run_event_loop_unwrap_none
    \/ run_event_loop_try_new_err
    \/ run_event_loop_try_new
    \/ run_event_loop_set_signal
    \/ run_event_loop_input_init
    \/ run_event_loop_input_init_err
    \/ run_event_loop_take_receiver
    \/ run_event_loop_reentry_err
    \/ run_event_loop_insert_source
    \/ run_event_loop_insert_source_err
    \/ run_event_loop_reset_quit
    \/ run_event_loop_iterate
    \/ run_event_loop_exit
    \/ update_timers_and_animations
    \/ render_if_needed
    \/ render_if_needed_err
    \/ run_event_loop_next_timeout
    \/ dispatch_poll
    \/ dispatch_err
    \/ job_begin
    \/ job_end
    \/ drain_done
    \/ job_run_event_loop_try_new_err
    \/ job_run_event_loop_err

OtherThreads ==
    \/ quit_event_loop_err
    \/ quit_event_loop_store
    \/ quit_event_loop_wakeup
    \/ invoke_from_event_loop
    \/ input_event

Next == LoopThread \/ OtherThreads

Spec == Init /\ [][Next]_vars

(* Construction alone, with every renderer name and build, followed by
   create_window_adapter calls on the Backend it returns. *)
SeatCounts == 1..2

SeatHandshake ==
    \/ seat_open_err
    \/ \E evs \in SeatBatches : seat_open(evs)
    \/ seat_dispatch_err
    \/ seat_dispatch_timeout
    \/ \E evs \in SeatBatches : \E n \in SeatCounts : seat_dispatch(evs, n)

CtorNext ==
    \/ \E name \in RendererNames : new_with_renderer_by_name(name)
    \/ SeatHandshake
    \/ CreateWindowAdapter(AdapterSteps, HandoffFlags)

CtorSpec == CtorInit /\ [][CtorNext]_vars

(* The whole life of a Backend made by Backend::new(): construction, then
   the calls of the Platform and the Proxy. *)
BackendInit == CtorInit /\ features = Features

BackendNext == Backend_new \/ SeatHandshake \/ Next

BackendSpec == BackendInit /\ [][BackendNext]_vars

TypeOK ==
    /\ pc \in {"idle", "panicked", "set_signal", "input_init",
               "take_receiver", "insert_source", "reset_quit", "check_quit"}
                \cup LoopBody
    /\ runs \in 0..MaxRuns
    /\ nested \in 0..MaxNested
    /\ window \in BOOLEAN
    /\ user_event_receiver \in {"backend", "loop", "dropped"}
    /\ quit_loop \in BOOLEAN
    /\ loop_signal \in 0..next_id
    /\ event_loop \in 0..next_id
    /\ next_timeout \in Timeouts \cup {FrameMs}
    /\ current \in 0..MaxJobs
    /\ sent \in 0..MaxJobs
    /\ pre_start \in 0..sent
    /\ started \in BOOLEAN
    /\ dispatched \in BOOLEAN
    /\ features \subseteq Features
    /\ ctor_pc \in {"new", "seat_open", "activating", "constructed",
                    "failed", "panicked"}
    /\ renderer_name \in RendererNames
    /\ warned \in BOOLEAN
    /\ seat_active \in BOOLEAN
    /\ seat_disabled \in BOOLEAN
    /\ device_fd \subseteq SUBSET {"O_RDWR", "O_NONBLOCK"}

(* ------------------------------ properties ----------------------------- *)

(* The jobs in executed are in send order, each at most once. *)
InSendOrder(q) == \A i, j \in 1..Len(q) : i < j => q[i] < q[j]

(* Every job accepted before the first call of run_event_loop has been
   executed, and these were the first ones executed, in submission order. *)
PreStartJobsDone ==
    /\ Len(executed) >= pre_start
    /\ \A j \in 1..pre_start : executed[j] = j

(* C1, as stated: once the loop has started, every job sent before
   run_event_loop was called is executed (exactly once, in submission
   order); so none of them may be missing when the call has returned. *)
C1_StartedLoopRunsPreStartJobs ==
    (started /\ pc = "idle") => PreStartJobsDone

(* C1, amended: the jobs sent before run_event_loop was called are executed
   exactly once, in submission order, by the first dispatch step of the loop
   that returns without error; no job is ever executed twice or out of
   order. *)
C1_FirstDispatchRunsPreStartJobs ==
    /\ InSendOrder(executed)
    /\ current # 0 => \A i \in 1..Len(executed) : executed[i] < current
    /\ dispatched => PreStartJobsDone

C1_Witness ==
    /\ dispatched
    /\ pre_start = 3
    /\ executed = <<1, 2, 3>>

(* C2: once quit_event_loop has returned Ok(()) while the dispatch loop is
   running, the loop is not left blocked in the reactor: the wakeup is
   pending on the reactor the loop waits in, so the loop leaves the wait at
   once, sees the flag and exits. *)
C2_QuitWakesBlockedLoop ==
    (pc = "dispatch" /\ quit_loop /\ qpc = "idle") => wake

(* C3, as stated: quit_event_loop and invoke_from_event_loop called before
   run_event_loop has been called both return EventLoopTerminated. *)
C3_BeforeStartBothTerminated ==
    (last_call.op # "none" /\ last_call.phase = "before")
        => last_call.res = "EventLoopTerminated"

(* C3, amended: before run_event_loop has been called, quit_event_loop
   returns EventLoopTerminated, and invoke_from_event_loop returns Ok(())
   and queues the job, the receiver being held by the Backend. *)
C3_BeforeStartQuitFailsInvokeQueues ==
    /\ last_call.phase = "before" =>
          /\ last_call.op = "quit" => last_call.res = "EventLoopTerminated"
          /\ last_call.op = "invoke" => last_call.res = "Ok"
    /\ runs = 0 =>
          /\ ~quit_loop
          /\ user_event_channel = [j \in 1..sent |-> j]

C3_Witness ==
    /\ runs = 0
    /\ last_call = [op |-> "quit", phase |-> "before",
                    res |-> "EventLoopTerminated"]
    /\ Len(user_event_channel) = 2

(* C4: after the loop has run and run_event_loop has returned, its receiver
   and reactor dropped, every quit_event_loop and invoke_from_event_loop
   call returns EventLoopTerminated. *)
C4_AfterStopBothTerminated ==
    (started /\ last_call.op # "none" /\ last_call.phase = "after")
        => last_call.res = "EventLoopTerminated"

(* C5, as stated: a second call of run_event_loop, made after the first has
   returned, fails with the re-entrancy error and runs no iteration. *)
C5_SecondCallIsReentryError ==
    runs >= 2 =>
        /\ pc \notin LoopBody
        /\ pc = "idle" => result = "ErrReentry"

(* C5, amended: a call of run_event_loop made after an earlier call has
   taken the channel receiver never installs the channel source or runs an
   iteration, and returns an error: the re-entrancy error, unless creating
   the reactor or initialising the input fails first. *)
C5_CallAfterTakenReceiverFails ==
    (took_at # 0 /\ runs > took_at) =>
        /\ pc \in {"idle", "set_signal", "input_init", "take_receiver"}
        /\ pc = "idle" => result \in {"ErrCreate", "ErrInput", "ErrReentry"}

C5_Witness ==
    /\ took_at = 1
    /\ runs = 2
    /\ pc = "idle"
    /\ result = "ErrReentry"
    /\ dispatched

(* C6: jobs A, B, C sent before run_event_loop is called are executed in the
   order A, B, C, and no timer update or render pass of the loop comes
   between them: the first render pass after any of them has run finds all
   three executed. *)
C6_PreStartJobsBeforeNextRender ==
    /\ (pc \in {"update_timers", "render", "compute_timeout", "dispatch"}
            /\ executed # <<>>) => PreStartJobsDone
    /\ \A j \in 1..Len(executed) : j <= pre_start => executed[j] = j

C6_Witness ==
    /\ pre_start = 3
    /\ pc = "render"
    /\ executed = <<1, 2, 3>>
    /\ sent = 3

(* C7, as stated: every job invoke_from_event_loop accepted is executed
   exactly once, whatever the state of the loop when it was sent, and none
   is dropped; so when the receiver is dropped all of them have run. *)
C7_NoAcceptedJobDropped ==
    user_event_receiver = "dropped" => Len(executed) = sent

(* C7, amended: every accepted job is executed at most once, in send order;
   while the receiver exists each accepted job is either executed, being
   executed, or still queued; a dispatch step that has drained the channel
   leaves no accepted job unexecuted; the jobs still queued when
   run_event_loop returns are dropped and never run. *)
C7_AcceptedJobsRunAtMostOnce ==
    /\ [](/\ executed \o (IF current = 0 THEN <<>> ELSE <<current>>)
                 = [j \in 1..(Len(executed) + IF current = 0 THEN 0 ELSE 1)
                        |-> j]
          /\ Len(executed) <= sent
          /\ user_event_receiver # "dropped" =>
                executed \o (IF current = 0 THEN <<>> ELSE <<current>>)
                         \o user_event_channel = [j \in 1..sent |-> j]
          /\ user_event_receiver = "dropped" =>
                user_event_channel = <<>> /\ current = 0)
    /\ [][(pc = "drain" /\ pc' = "check_quit") => Len(executed') = sent']_vars

C7_Witness ==
    /\ user_event_receiver = "dropped"
    /\ sent = 3
    /\ executed = <<1, 2>>

(* C8: jobs are executed in send order, one at a time and each to
   completion before the next, and only in the event-dispatch phase: no job
   begins or ends while the loop is in its timer-advance, render or
   timeout steps. *)
C8_JobsOnlyInDispatchInOrder ==
    /\ [](/\ InSendOrder(executed)
          /\ current # 0 <=> pc = "in_job"
          /\ current # 0 => \A i \in 1..Len(executed) : executed[i] < current)
    /\ [][(current' # current \/ executed' # executed)
             => (pc \in {"drain", "in_job"} /\ pc' \in {"drain", "in_job"})]_vars
    /\ [][current' # current => (current = 0 \/ current' = 0)]_vars

C8_Witness ==
    /\ pc = "in_job"
    /\ current = 3
    /\ executed = <<1, 2>>
    /\ pre_start = 1

(* C9: whenever the loop enters the reactor in an iteration in which the
   adapter reports active animations, the timeout it passes is at most
   16 ms, whatever the adapter's timer deadline is, absent included. *)
C9_AnimationsBoundTimeout ==
    (pc = "dispatch" /\ has_active_animations)
        => (next_timeout # NoTimeout /\ next_timeout <= FrameMs)

C9_Witness ==
    /\ pc = "dispatch"
    /\ has_active_animations
    /\ duration_until_next_timer_update = 100
    /\ next_timeout = FrameMs

(* C10: in an iteration with no active animations and no pending timer the
   loop enters the reactor with no timeout, and while no source (job
   channel, input, wakeup) is ready it stays there: no timer update and no
   render pass follows; the only other way out is a failing dispatch. *)
SourceReady == wake \/ chan_ping \/ input_ready

C10_BlocksUntilSourceFires ==
    /\ []((pc = "dispatch" /\ ~has_active_animations
              /\ duration_until_next_timer_update = NoTimeout)
            => next_timeout = NoTimeout)
    /\ [][(pc = "dispatch" /\ next_timeout = NoTimeout /\ ~SourceReady)
            => (pc' = "dispatch"
                \/ (pc' = "idle" /\ result' = "ErrDispatch"))]_vars

C10_Witness ==
    /\ pc = "dispatch"
    /\ ~has_active_animations
    /\ duration_until_next_timer_update = NoTimeout
    /\ next_timeout = NoTimeout
    /\ ~SourceReady
    /\ executed = <<1>>

(* --------------------- construction and the session --------------------- *)

(* C11: the session activation handshake. A Backend exists only with the
   session's active flag set, and a dispatch that handles an Enable (and
   no Disable) ends construction with Ok; the timeout error is returned
   only with the flag still false, and then no Backend exists, so no
   adapter call was made and no device opened. In every state in which
   create_window_adapter has opened a device the active flag is true. *)
C11_NoDeviceBeforeActivation ==
    /\ [](/\ adapter_call.handoff # {} => seat_active
          /\ adapter_call # NoAdapterCall => seat_active
          /\ ctor_pc = "constructed" <=> ctor_result = "Ok"
          /\ ctor_pc = "constructed" => seat_active
          /\ ctor_pc = "activating" => ~seat_active
          /\ ctor_result = "ErrTimeout" =>
                /\ ctor_pc = "failed"
                /\ ~seat_active
                /\ ~window
                /\ adapter_call = NoAdapterCall)
    /\ [][/\ (ctor_pc = "activating" /\ seat_active' /\ ~seat_disabled')
                => (ctor_pc' = "constructed" /\ ctor_result' = "Ok")
          /\ (ctor_result # "ErrTimeout" /\ ctor_result' = "ErrTimeout")
                => (ctor_pc = "activating" /\ ~seat_active /\ ~seat_active')
         ]_vars

(* A Backend constructed after an Enable event whose create_window_adapter
   opened a device and returned an adapter. *)
C11_Witness ==
    /\ ctor_pc = "constructed"
    /\ seat_active
    /\ adapter_call.handoff # {}
    /\ adapter_call.res = "Ok"
    /\ window

(* C12: every descriptor the device opener returns to the renderer has
   O_NONBLOCK clear and its other flags as the session handed them over,
   whether or not O_NONBLOCK was set at hand-off; so has the descriptor
   the cached adapter's renderer owns. *)
C12_ReturnedDescriptorsBlock ==
    /\ \A f \in adapter_call.fd :
          /\ "O_NONBLOCK" \notin f
          /\ \A h \in adapter_call.handoff :
                f \cup {"O_NONBLOCK"} = h \cup {"O_NONBLOCK"}
    /\ \A f \in device_fd : "O_NONBLOCK" \notin f

(* The opener returned a descriptor that was handed over non-blocking. *)
C12_Witness ==
    /\ adapter_call.fd # {}
    /\ \E h \in adapter_call.handoff : "O_NONBLOCK" \in h

OpenerFailures == {"open_device", "F_GETFL", "F_SETFL"}

(* C13: a create_window_adapter call in which open_device, F_GETFL or
   F_SETFL failed has returned an error, so no adapter, and the step that
   made the call left self.window and the cached adapter's descriptor as
   they were. *)
C13_OpenerFailureIsError ==
    /\ [](adapter_call.fails \in OpenerFailures =>
             /\ adapter_call.res \in {"ErrOpenDevice", "ErrGetFlags",
                                      "ErrSetFlags"}
             /\ adapter_call.fd = {})
    /\ [][adapter_call'.fails \in OpenerFailures =>
             (window' = window /\ device_fd' = device_fd)]_vars

(* A call failed at F_SETFL on a Backend that had cached an adapter in an
   earlier call. *)
C13_Witness ==
    /\ adapter_call.fails = "F_SETFL"
    /\ adapter_call.res = "ErrSetFlags"
    /\ window
    /\ device_fd # {}

(* C14: renderer selection never fails construction. Once the selection
   is made, an absent name has given the default factory without a
   warning, a name with no match arm in the build has given the same
   default factory with the warning, and a name with an arm has given its
   own renderer; the selection step always goes on to the opening of the
   seat, and construction fails only with one of the seat's errors. *)
C14_UnknownRendererIsDefault ==
    /\ [](ctor_pc # "new" =>
             /\ renderer_name = "None" =>
                   (renderer_factory = DefaultFactory /\ ~warned)
             /\ (renderer_name # "None"
                 /\ ~Recognized(renderer_name, features)) =>
                   (renderer_factory = DefaultFactory /\ warned)
             /\ Recognized(renderer_name, features) =>
                   (renderer_factory = renderer_name /\ ~warned))
    /\ [](ctor_pc = "failed" =>
             ctor_result \in {"ErrOpenSeat", "ErrSeatDispatch", "ErrTimeout"})
    /\ [][ctor_pc = "new" => ctor_pc' = "seat_open"]_vars

(* A Backend constructed with the name of a renderer the build lacks. *)
C14_Witness ==
    /\ ctor_pc = "constructed"
    /\ renderer_name = "skia-vulkan"
    /\ "renderer-skia-vulkan" \notin features
    /\ renderer_factory = DefaultFactory
    /\ warned

(* C15: a Disable event, in the activation handshake or in a dispatch of
   the running loop, is a panic of the thread that owns the Backend: from
   then on that thread is at the panic, so it makes no render pass, runs
   no job and opens no device, and the active flag, once true, is never
   false again. *)
C15_DisableAborts ==
    /\ [](seat_disabled => (ctor_pc = "panicked" \/ pc = "panicked"))
    /\ [][seat_disabled =>
             /\ pc' = pc
             /\ ctor_pc' = ctor_pc
             /\ current' = current
             /\ executed' = executed
             /\ adapter_call' = adapter_call
             /\ window' = window]_vars
    /\ [][seat_active => seat_active']_vars

(* The session was disabled while the loop was running, after a job. *)
C15_Witness ==
    /\ seat_disabled
    /\ seat_active
    /\ pc = "panicked"
    /\ started
    /\ executed # <<>>

(* ------------------------------ the loop ------------------------------- *)

(* C16: the step at which reactor creation, source registration,
   render_if_needed or dispatch fails is the last step of the call: it
   returns that step's error and drops the reactor, so no iteration
   follows in that call; Ok(()) is returned only from the while condition,
   with the quit flag set. *)
C16_LoopErrorsEndTheCall ==
    [][/\ (pc # "idle" /\ pc' = "idle") =>
              /\ event_loop' = 0
              /\ result' = CASE pc = "input_init" -> "ErrInput"
                             [] pc = "take_receiver" -> "ErrReentry"
                             [] pc = "insert_source" -> "ErrInsert"
                             [] pc = "render" -> "ErrRender"
                             [] pc = "dispatch" -> "ErrDispatch"
                             [] pc = "check_quit" -> "Ok"
                             [] OTHER -> "no return"
              /\ pc = "check_quit" => quit_loop
       /\ (pc = "idle" /\ runs' # runs /\ pc' = "idle") =>
              (result' = "ErrCreate" /\ event_loop' = 0
               /\ started' = started /\ executed' = executed)
      ]_vars

(* The dispatch of a loop that had already run a job failed, and the call
   returned its error. *)
C16_Witness ==
    /\ pc = "idle"
    /\ result = "ErrDispatch"
    /\ started
    /\ executed # <<>>
    /\ event_loop = 0

(* The state of the Backend's dispatch loop: Idle until a call has taken
   the receiver and reached the while loop, Running while the loop goes
   round with the quit flag clear, Terminating while it does with the flag
   set, Stopped once the receiver is dropped with the call's reactor or
   the loop thread has panicked. *)
LoopState ==
    IF user_event_receiver = "dropped" \/ pc = "panicked" THEN "Stopped"
    ELSE IF user_event_receiver = "loop"
            /\ pc \in {"check_quit"} \cup LoopBody
         THEN IF quit_loop THEN "Terminating" ELSE "Running"
    ELSE "Idle"

LoopRank(state) ==
    CASE state = "Idle" -> 0
      [] state = "Running" -> 1
      [] state = "Terminating" -> 2
      [] state = "Stopped" -> 3

(* C17: the loop's state only moves forward through Idle, Running,
   Terminating, Stopped (a failing step may skip states), so Running is
   entered at most once and never after Stopped, whatever calls are made;
   a call made after Stopped leaves the state Stopped. *)
C17_SinglePass ==
    /\ [][LoopRank(LoopState') >= LoopRank(LoopState)]_vars
    /\ [][(LoopState # "Running" /\ LoopState' = "Running") =>
             (LoopState = "Idle" /\ ~started /\ took_at = runs)]_vars

(* The loop ran and stopped, and a later run_event_loop call failed. *)
C17_Witness ==
    /\ LoopState = "Stopped"
    /\ started
    /\ pc = "idle"
    /\ runs > took_at
    /\ result = "ErrReentry"

(* C18: the quit flag is read only by the while condition. Inside an
   iteration every step leads where it leads with the flag clear: the
   iteration is left only for the while condition, or by a failing render
   or dispatch step, or by a panic, and never with Ok(()); the dispatch
   returns to the while condition only with the channel drained; and a
   job that has begun is left only by completing, after which it counts
   as executed. *)
C18_QuitOnlyAtIterationBoundary ==
    [][/\ (pc \in LoopBody /\ pc' \notin LoopBody) =>
              \/ pc' = "check_quit" /\ pc \in {"dispatch", "drain"}
              \/ pc' = "idle" /\ pc = "render" /\ result' = "ErrRender"
              \/ pc' = "idle" /\ pc = "dispatch" /\ result' = "ErrDispatch"
              \/ pc' = "panicked" /\ pc = "dispatch"
       /\ (pc = "drain" /\ pc' = "check_quit") => user_event_channel = <<>>
       /\ (pc = "update_timers" /\ pc' # pc) => pc' = "render"
       /\ (pc = "compute_timeout" /\ pc' # pc) => pc' = "dispatch"
       /\ (pc' = "idle" /\ pc # "idle" /\ result' = "Ok") =>
              (pc = "check_quit" /\ quit_loop)
       /\ current # 0 =>
              /\ pc = "in_job"
              /\ pc' \in {"in_job", "drain"}
              /\ current' \in {current, 0}
              /\ current' = 0 => executed' = Append(executed, current)
      ]_vars

(* The flag was set while a job was running and more jobs were waiting,
   and the loop is still inside that iteration. *)
C18_Witness ==
    /\ quit_loop
    /\ qpc = "idle"
    /\ pc = "in_job"
    /\ current # 0
    /\ user_event_channel # <<>>

(* C19: every iteration computes next_timeout anew from what the adapter
   reports in that iteration, whatever the value of the iteration before:
   the frame time when animations are active, otherwise
   duration_until_next_timer_update, None included; and that is the
   timeout the dispatch of the iteration waits with. *)
C19_TimeoutRecomputedEachIteration ==
    /\ [](pc = "dispatch" =>
             next_timeout = IF has_active_animations THEN FrameMs
                            ELSE duration_until_next_timer_update)
    /\ [][(pc = "compute_timeout" /\ pc' # pc) =>
             /\ pc' = "dispatch"
             /\ next_timeout' = IF has_active_animations THEN FrameMs
                                ELSE duration_until_next_timer_update
             /\ UNCHANGED adapter_vars]_vars
    /\ [][(pc = "check_quit" /\ pc' \in LoopBody) =>
             pc' = "update_timers"]_vars

(* In an iteration after the first, which waited with a timeout, the loop
   waits with none: no animation is active and no timer is due. *)
C19_Witness ==
    /\ pc = "dispatch"
    /\ dispatched
    /\ executed # <<>>
    /\ ~has_active_animations
    /\ duration_until_next_timer_update = NoTimeout
    /\ next_timeout = NoTimeout

(* C20 as stated: once a job waits in the channel of a loop that is in
   its dispatch, the next thing the loop does is run the channel's
   jobs. *)
C20_WaitingJobIsRunNext ==
    [][(pc = "dispatch" /\ user_event_channel # <<>> /\ pc' # pc) =>
          pc' = "drain"]_vars

(* C20, amended: a job waiting in the channel of a loop that is in its
   dispatch has the channel's ping pending, so the wait can return
   whatever the timeout, with no wakeup and no timer; the dispatch then
   runs the channel's jobs, all of them, before the loop goes on, unless
   the dispatch fails or panics, which ends the call with the job
   unexecuted. *)
C20_SentJobInterruptsWait ==
    /\ []((pc = "dispatch" /\ user_event_channel # <<>>) =>
             (chan_ping /\ PollReady(next_timeout)))
    /\ [][(pc = "dispatch" /\ user_event_channel # <<>> /\ pc' # pc) =>
             \/ pc' = "drain"
             \/ pc' = "idle" /\ result' = "ErrDispatch"
             \/ pc' = "panicked"]_vars
    /\ [][(pc = "drain" /\ pc' # pc) =>
             \/ /\ pc' = "in_job"
                /\ user_event_channel # <<>>
                /\ current' = Head(user_event_channel)
             \/ /\ pc' = "check_quit"
                /\ user_event_channel = <<>>]_vars

(* A job sent to the running loop is being executed after a dispatch that
   waited with no timeout, with no quit request made. *)
C20_Witness ==
    /\ pc = "in_job"
    /\ next_timeout = NoTimeout
    /\ dispatched
    /\ ~quit_loop
    /\ qpc = "idle"
    /\ last_call = [op |-> "invoke", phase |-> "during", res |-> "Ok"]

(* ------------------- the Proxy and run_event_loop ---------------------- *)

(* C21: no termination request is lost. While the first run_event_loop
   call is in progress and the last Proxy call was a quit_event_loop that
   returned Ok(()) during that call, the quit flag is still set, so the
   while condition will see it. *)
C21_AcceptedQuitKeepsFlag ==
    (/\ runs = 1
     /\ pc \notin {"idle", "panicked"}
     /\ qpc = "idle"
     /\ last_call = [op |-> "quit", phase |-> "during", res |-> "Ok"])
        => quit_loop

(* C22: a Proxy call that returns EventLoopTerminated changes nothing. A
   failing quit_event_loop found no signal, and a failing
   invoke_from_event_loop found the receiver dropped; the step of either
   leaves the quit flag, the signal, the pending wakeup, the channel with
   its ping, the count of accepted jobs and the jobs executed or running
   as they were, so the refused job is never executed. *)
C22_FailedProxyCallChangesNothing ==
    /\ [][(last_call' # last_call
           /\ last_call'.res = "EventLoopTerminated") =>
             /\ last_call'.op = "quit" => loop_signal = 0
             /\ last_call'.op = "invoke" => user_event_receiver = "dropped"
             /\ UNCHANGED <<quit_loop, loop_signal, wake, qpc, chan_vars,
                            job_vars, pc, event_loop>>]_vars
    /\ [](/\ \A i \in 1..Len(executed) : executed[i] \in 1..sent
          /\ \A i \in 1..Len(user_event_channel) :
                user_event_channel[i] \in 1..sent
          /\ current \in 0..sent)

(* After the loop has run a job and stopped, a job was refused. *)
C22_Witness ==
    /\ last_call = [op |-> "invoke", phase |-> "after",
                    res |-> "EventLoopTerminated"]
    /\ user_event_receiver = "dropped"
    /\ user_event_channel = <<>>
    /\ executed # <<>>

(* C23: a run_event_loop call that fails before the dispatch loop leaves
   the Proxy's shared state as it was. A call made from a job while the
   loop runs changes neither the registered signal nor the quit flag nor
   the channel; and when the first call of all has failed at the reactor's
   creation, at the input initialisation or at the re-entrancy check, no
   signal is registered, as none was before it. *)
C23_FailedRunLeavesProxyAlone ==
    /\ [][nested' # nested =>
             UNCHANGED <<loop_signal, quit_loop, user_event_channel,
                         chan_ping, user_event_receiver>>]_vars
    /\ []((/\ runs = 1
           /\ pc = "idle"
           /\ result \in {"ErrCreate", "ErrInput", "ErrReentry"})
             => loop_signal = 0)

====
